---- MODULE Spec2Model ----
(***************************************************************************)
(* Model of the origin-tracing pass of src/part1/pass.cpp (SkeletonPass):  *)
(* the recursive backward walk traceVariableOrigin over the operand graph  *)
(* of an IR module, the driver run that seeds it with the condition of     *)
(* every conditional branch, and the helper printSourceLocation.           *)
(*                                                                         *)
(* The IR is the input.  A value is named by a string; its class (the      *)
(* answer of isa<>/dyn_cast<>) is fixed by the set it belongs to, and its  *)
(* operand list is the variable `operands`.  The stream errs() is the      *)
(* variable `errs`, a sequence of lines [tag, v].  `calls` is a history of *)
(* every invocation of traceVariableOrigin with its recursion depth.       *)
(***************************************************************************)
EXTENDS Integers, Sequences, FiniteSets, TLC

VARIABLES operands, module, pos, stack, errs, calls, status, instr

vars == <<operands, module, pos, stack, errs, calls, status, instr>>

(***************************************************************************)
(* Bounds of the model.                                                    *)
(***************************************************************************)
\* most incoming values of the phi node
MaxIncoming == 2
\* frames the call stack holds before the recursion exhausts it
MaxDepth == 6
\* most basic blocks in a module
MaxBlocks == 2
\* largest line and column number of a debug location
MaxLine == 3
MaxColumn == 3

(***************************************************************************)
(* The value universe: one value (or two) of every class the pass tests.   *)
(***************************************************************************)
Arguments == {"p"}
AllocaInsts == {"a"}
GlobalVariables == {"g"}
StoreInsts == {"st"}
LoadInsts == {"ld"}
ICmpInsts == {"cmp"}
BinaryOperators == {"add"}
PHINodes == {"phi"}
CallInsts == {"call"}
ConstantInts == {"k"}
Functions == {"scanf", "foo"}

Instructions ==
    AllocaInsts \cup StoreInsts \cup LoadInsts \cup ICmpInsts
        \cup BinaryOperators \cup PHINodes \cup CallInsts
Constants == ConstantInts \cup Functions \cup GlobalVariables
Values == Arguments \cup Instructions \cup Constants

\* the value an instruction without a condition carries in `cond`
NoValue == "none"

isaArgument(V) == V \in Arguments
isaAllocaInst(V) == V \in AllocaInsts
isaGlobalVariable(V) == V \in GlobalVariables
isaStoreInst(V) == V \in StoreInsts
isaInstruction(V) == V \in Instructions
isaConstant(V) == V \in Constants

(***************************************************************************)
(* Sequences of length lo..hi over S.                                      *)
(***************************************************************************)
SeqsOf(S, lo, hi) == UNION {[1..n -> S] : n \in lo..hi}

(***************************************************************************)
(* The operand graphs.  alloca carries its array size, a global its        *)
(* initializer, a store its value and pointer, a call its argument and     *)
(* (last) its callee.  load, icmp and phi vary; add feeds on the phi, so   *)
(* a phi with add, or with itself, among its incoming values closes a      *)
(* cycle.                                                                  *)
(***************************************************************************)
Graphs ==
    { [v \in Values |->
          CASE v = "a" -> <<"k">>
            [] v = "g" -> <<"k">>
            [] v = "st" -> <<"k", "a">>
            [] v = "ld" -> <<ptr>>
            [] v = "cmp" -> cmpOps
            [] v = "add" -> <<"phi", "k">>
            [] v = "phi" -> incoming
            [] v = "call" -> <<"a", callee>>
            [] OTHER -> <<>>] :
        ptr \in {"a", "g"},
        cmpOps \in {<<x, y>> : x \in {"ld", "phi", "call"}, y \in {"k", "ld", "p"}},
        incoming \in SeqsOf({"k", "add", "ld", "phi"}, 1, MaxIncoming),
        callee \in Functions }

(***************************************************************************)
(* errs(): a line is a tag and the value it prints.                        *)
(***************************************************************************)
Line(tag, V) == [tag |-> tag, v |-> V]

\* the tags of the lines with which traceVariableOrigin reports a value
OriginTags ==
    {"function argument", "alloca", "global variable", "store", "instruction"}

(***************************************************************************)
(* printValueName: the line naming the class of V.  GlobalVariable is a    *)
(* Constant, so the constant test answers for it.  The listing of V's      *)
(* users that follows reads the use lists and is report formatting; it is  *)
(* not part of the trace.                                                  *)
(***************************************************************************)
printValueName(V) ==
    IF isaInstruction(V) THEN <<Line("Value is an instruction", V)>>
    ELSE IF isaConstant(V) THEN <<Line("Value is a constant", V)>>
    ELSE IF isaArgument(V) THEN <<Line("Value is a function argument", V)>>
    ELSE IF isaGlobalVariable(V) THEN <<Line("Value is a global variable", V)>>
    ELSE <<Line("Unknown Value type", V)>>

(***************************************************************************)
(* The body of traceVariableOrigin up to its operand loop: what it prints  *)
(* to `out` for V and whether it goes on to the operands of V.  Before it,  *)
(* two faulty variants: one lacks the StoreInst test, so a store is walked *)
(* like any instruction; one consults the values already reported in the   *)
(* stream as a ledger kept by the pass and skips them.                     *)
(***************************************************************************)
traceVariableOriginStoreExpanded(V, out) ==
    IF isaArgument(V) THEN
        [out |-> Append(out, Line("function argument", V)), expand |-> FALSE]
    ELSE IF isaAllocaInst(V) THEN
        [out |-> Append(out, Line("alloca", V)) \o printValueName(V),
         expand |-> FALSE]
    ELSE IF isaGlobalVariable(V) THEN
        [out |-> Append(out, Line("global variable", V)) \o printValueName(V),
         expand |-> FALSE]
    ELSE IF isaInstruction(V) THEN
        [out |-> Append(out, Line("instruction", V)) \o printValueName(V),
         expand |-> TRUE]
    ELSE [out |-> out, expand |-> FALSE]

traceVariableOriginLedger(V, out) ==
    IF \E i \in 1..Len(out) : out[i].tag \in OriginTags /\ out[i].v = V THEN
        [out |-> out, expand |-> FALSE]
    ELSE IF isaArgument(V) THEN
        [out |-> Append(out, Line("function argument", V)), expand |-> FALSE]
    ELSE IF isaAllocaInst(V) THEN
        [out |-> Append(out, Line("alloca", V)) \o printValueName(V),
         expand |-> FALSE]
    ELSE IF isaGlobalVariable(V) THEN
        [out |-> Append(out, Line("global variable", V)) \o printValueName(V),
         expand |-> FALSE]
    ELSE IF isaStoreInst(V) THEN
        [out |-> Append(out, Line("store", V)) \o printValueName(V),
         expand |-> FALSE]
    ELSE IF isaInstruction(V) THEN
        [out |-> Append(out, Line("instruction", V)) \o printValueName(V),
         expand |-> TRUE]
    ELSE [out |-> out, expand |-> FALSE]

traceVariableOrigin(V, out) ==
    IF isaArgument(V) THEN
        [out |-> Append(out, Line("function argument", V)), expand |-> FALSE]
    ELSE IF isaAllocaInst(V) THEN
        [out |-> Append(out, Line("alloca", V)) \o printValueName(V),
         expand |-> FALSE]
    ELSE IF isaGlobalVariable(V) THEN
        [out |-> Append(out, Line("global variable", V)) \o printValueName(V),
         expand |-> FALSE]
    ELSE IF isaStoreInst(V) THEN
        [out |-> Append(out, Line("store", V)) \o printValueName(V),
         expand |-> FALSE]
    ELSE IF isaInstruction(V) THEN
        [out |-> Append(out, Line("instruction", V)) \o printValueName(V),
         expand |-> TRUE]
    ELSE [out |-> out, expand |-> FALSE]

(***************************************************************************)
(* Inst->operands(): the operand list the loop of traceVariableOrigin      *)
(* walks, in operand order.  Before it, two faulty variants: one walks     *)
(* each distinct operand once, one walks the operands last to first.       *)
(***************************************************************************)
RECURSIVE Dedup(_)
Dedup(s) ==
    IF s = <<>> THEN <<>>
    ELSE LET front == Dedup(SubSeq(s, 1, Len(s) - 1))
             last == s[Len(s)]
         IN  IF \E i \in 1..Len(front) : front[i] = last
             THEN front ELSE Append(front, last)

OperandsDistinct(G, V) == Dedup(G[V])

OperandsReversed(G, V) == [i \in 1..Len(G[V]) |-> G[V][Len(G[V]) + 1 - i]]

OperandsOf(G, V) == G[V]

(***************************************************************************)
(* The call stack of traceVariableOrigin.  A frame holds its argument V,   *)
(* where it stands ("entry": before the body, "loop": in the operand       *)
(* loop) and the index of the next operand.                                *)
(***************************************************************************)
Frame(V) == [v |-> V, pc |-> "entry", i |-> 1]

Top == stack[Len(stack)]

Pop(s) == SubSeq(s, 1, Len(s) - 1)

SetTop(s, f) == [s EXCEPT ![Len(s)] = f]

\* the call traceVariableOrigin(V) made with `s` the caller's stack
CallTrace(s, V) ==
    /\ stack' = Append(s, Frame(V))
    /\ calls' = Append(calls, [v |-> V, depth |-> Len(s) + 1])

\* lines 158-189: the tests on V and the report of it
TraceEnter ==
    /\ status = "running"
    /\ stack # <<>>
    /\ Top.pc = "entry"
    /\ LET r == traceVariableOrigin(Top.v, errs)
       IN  /\ errs' = r.out
           /\ stack' = IF r.expand
                       THEN SetTop(stack, [Top EXCEPT !.pc = "loop"])
                       ELSE Pop(stack)
    /\ UNCHANGED <<operands, module, pos, calls, status, instr>>

\* lines 191-194: one turn of the operand loop, the recursive call made
TraceOperand ==
    /\ status = "running"
    /\ stack # <<>>
    /\ Top.pc = "loop"
    /\ Top.i <= Len(OperandsOf(operands, Top.v))
    /\ Len(stack) < MaxDepth
    /\ LET Operand == OperandsOf(operands, Top.v)[Top.i]
       IN  /\ errs' = Append(errs, Line("Operand", Operand))
           /\ CallTrace(SetTop(stack, [Top EXCEPT !.i = @ + 1]), Operand)
    /\ UNCHANGED <<operands, module, pos, status, instr>>

\* line 194 with no stack left for the callee's frame: the process dies
TraceOverflow ==
    /\ status = "running"
    /\ stack # <<>>
    /\ Top.pc = "loop"
    /\ Top.i <= Len(OperandsOf(operands, Top.v))
    /\ Len(stack) = MaxDepth
    /\ errs' = Append(errs, Line("Operand", OperandsOf(operands, Top.v)[Top.i]))
    /\ status' = "overflow"
    /\ UNCHANGED <<operands, module, pos, stack, calls, instr>>

\* lines 195-197: the operand loop is over, the call returns
TraceReturn ==
    /\ status = "running"
    /\ stack # <<>>
    /\ Top.pc = "loop"
    /\ Top.i > Len(OperandsOf(operands, Top.v))
    /\ stack' = Pop(stack)
    /\ UNCHANGED <<operands, module, pos, errs, calls, status, instr>>

(***************************************************************************)
(* traceVariableOrigin called on its own: any value of any graph is the    *)
(* seed; the caller takes the result when the outermost call returns.      *)
(***************************************************************************)
NoInstr == [loc |-> <<>>, dbgDeclare |-> FALSE, var |-> ""]

InitTrace ==
    /\ operands \in Graphs
    /\ module = <<>>
    /\ pos = [f |-> 1, b |-> 0, i |-> 0]
    /\ \E V \in Values :
          /\ stack = <<Frame(V)>>
          /\ calls = <<[v |-> V, depth |-> 1]>>
    /\ errs = <<>>
    /\ status = "running"
    /\ instr = NoInstr

TraceDone ==
    /\ status = "running"
    /\ stack = <<>>
    /\ status' = "returned"
    /\ UNCHANGED <<operands, module, pos, stack, errs, calls, instr>>

NextTrace ==
    \/ TraceEnter
    \/ TraceOperand
    \/ TraceOverflow
    \/ TraceReturn
    \/ TraceDone

SpecTrace == InitTrace /\ [][NextTrace]_vars /\ WF_vars(NextTrace)

(***************************************************************************)
(* The module run walks: functions of basic blocks of instructions.  Of an *)
(* instruction the driver reads only whether it is a BranchInst, whether   *)
(* that branch is conditional, and its condition.                          *)
(***************************************************************************)
Other == [opcode |-> "other", conditional |-> FALSE, cond |-> NoValue]

UncondBr == [opcode |-> "br", conditional |-> FALSE, cond |-> NoValue]

CondBr(c) == [opcode |-> "br", conditional |-> TRUE, cond |-> c]

\* the values the modules branch on
CondValues == {"cmp", "ld", "p"}

BlockSet ==
    {<<Other, CondBr(c)>> : c \in CondValues} \cup {<<UncondBr>>, <<Other, Other>>}

\* a function is a sequence of blocks; a declaration has none
FunctionSet == SeqsOf(BlockSet, 0, MaxBlocks)

RECURSIVE TotalBlocks(_)
TotalBlocks(m) ==
    IF m = <<>> THEN 0 ELSE Len(m[1]) + TotalBlocks(Tail(m))

\* one or two functions holding at most MaxBlocks blocks between them
Modules == {m \in SeqsOf(FunctionSet, 1, 2) : TotalBlocks(m) <= MaxBlocks}

\* the graphs of the modules run is given
RunGraphs ==
    {G \in Graphs :
        /\ G["ld"] = <<"a">>
        /\ G["call"] = <<"a", "scanf">>
        /\ G["phi"] \in {<<"k", "add">>, <<"ld", "ld">>}}

(***************************************************************************)
(* run: the three nested loops.  pos is the place of the walk: b = 0       *)
(* before the header of function f, i = 0 before the header of block b.    *)
(***************************************************************************)
\* lines 240-242: the instruction whose condition is traced; before it, a
\* faulty variant without the isConditional test
TracesAnyBranch(I) == I.opcode = "br"

TracesCondition(I) == I.opcode = "br" /\ I.conditional

\* the increments of the three loops: the place after instruction p
AfterInstruction(m, p) ==
    IF p.i < Len(m[p.f][p.b]) THEN [f |-> p.f, b |-> p.b, i |-> p.i + 1]
    ELSE IF p.b < Len(m[p.f]) THEN [f |-> p.f, b |-> p.b + 1, i |-> 0]
    ELSE [f |-> p.f + 1, b |-> 0, i |-> 0]

\* lines 229-230: the header of a function
RunFunction ==
    /\ status = "running"
    /\ stack = <<>>
    /\ pos.f <= Len(module)
    /\ pos.b = 0
    /\ errs' = Append(errs, Line("I see a function", "F"))
    /\ pos' = IF Len(module[pos.f]) = 0
              THEN [f |-> pos.f + 1, b |-> 0, i |-> 0]
              ELSE [f |-> pos.f, b |-> 1, i |-> 0]
    /\ UNCHANGED <<operands, module, stack, calls, status, instr>>

\* lines 232-233: the header of a basic block
RunBlock ==
    /\ status = "running"
    /\ stack = <<>>
    /\ pos.f <= Len(module)
    /\ pos.b >= 1
    /\ pos.i = 0
    /\ errs' = Append(errs, Line("I see a basic block", "BB"))
    /\ pos' = AfterInstruction(module, pos)
    /\ UNCHANGED <<operands, module, stack, calls, status, instr>>

\* lines 234-258: one instruction.  The trace of a condition runs to its
\* end before the walk goes on: the next driver step waits for the stack
\* to be empty again.
RunInstruction ==
    /\ status = "running"
    /\ stack = <<>>
    /\ pos.f <= Len(module)
    /\ pos.b >= 1
    /\ pos.i >= 1
    /\ LET I == module[pos.f][pos.b][pos.i]
           seen == Append(errs, Line("analyzing uses of", I.opcode))
       IN  IF TracesCondition(I) THEN
               /\ errs' = Append(seen, Line("branch instruction condition", I.cond))
               /\ CallTrace(<<>>, I.cond)
           ELSE IF I.opcode = "br" THEN
               /\ errs' = Append(seen, Line("branch instruction", I.opcode))
               /\ UNCHANGED <<stack, calls>>
           ELSE
               /\ errs' = seen
               /\ UNCHANGED <<stack, calls>>
    /\ pos' = AfterInstruction(module, pos)
    /\ UNCHANGED <<operands, module, status, instr>>

\* line 261: every function walked
RunReturn ==
    /\ status = "running"
    /\ stack = <<>>
    /\ pos.f > Len(module)
    /\ status' = "done"
    /\ UNCHANGED <<operands, module, pos, stack, errs, calls, instr>>

Init ==
    /\ operands \in RunGraphs
    /\ module \in Modules
    /\ pos = [f |-> 1, b |-> 0, i |-> 0]
    /\ stack = <<>>
    /\ errs = <<>>
    /\ calls = <<>>
    /\ status = "running"
    /\ instr = NoInstr

Next ==
    \/ RunFunction
    \/ RunBlock
    \/ RunInstruction
    \/ RunReturn
    \/ TraceEnter
    \/ TraceOperand
    \/ TraceOverflow
    \/ TraceReturn

Spec == Init /\ [][Next]_vars

(***************************************************************************)
(* printSourceLocation: the lines it prints for an instruction.  Of the    *)
(* instruction it reads the debug location (<<>> when none is attached),   *)
(* whether it is a DbgDeclareInst, and that intrinsic's variable ("" when  *)
(* getVariable() is null).  printSourceLocationUnmarked is a faulty        *)
(* variant without the final else.                                         *)
(***************************************************************************)
Files == {"a.c", "b.c"}

Locations == {<<>>} \cup (Files \X (1..MaxLine) \X (1..MaxColumn))

LocInstrs ==
    {I \in [loc : Locations, dbgDeclare : BOOLEAN, var : {"", "x"}] :
        I.var # "" => I.dbgDeclare}

printSourceLocationUnmarked(I) ==
    IF I.loc # <<>> THEN <<Line("Source file", I.loc)>>
    ELSE IF I.dbgDeclare THEN
        IF I.var # "" THEN <<Line("Variable Name", I.var)>> ELSE <<>>
    ELSE <<>>

printSourceLocation(I) ==
    IF I.loc # <<>> THEN <<Line("Source file", I.loc)>>
    ELSE IF I.dbgDeclare THEN
        IF I.var # "" THEN <<Line("Variable Name", I.var)>> ELSE <<>>
    ELSE <<Line("No debug info available", "")>>

InitLoc ==
    /\ operands = [v \in Values |-> <<>>]
    /\ module = <<>>
    /\ pos = [f |-> 1, b |-> 0, i |-> 0]
    /\ stack = <<>>
    /\ errs = <<>>
    /\ calls = <<>>
    /\ status = "running"
    /\ instr \in LocInstrs

\* lines 13-25
PrintSourceLocation ==
    /\ status = "running"
    /\ errs' = errs \o printSourceLocation(instr)
    /\ status' = "returned"
    /\ UNCHANGED <<operands, module, pos, stack, calls, instr>>

NextLoc == PrintSourceLocation

SpecLoc == InitLoc /\ [][NextLoc]_vars

(***************************************************************************)
(* What the properties below read off a state.                             *)
(***************************************************************************)
IsOriginLine(l) == l.tag \in OriginTags

\* the entries of a trace: the lines that report a value's origin
TraceResult(out) == SelectSeq(out, IsOriginLine)

\* the seed of a trace started on its own
Seed == calls[1].v

IsDepth2(c) == c.depth = 2

\* the values the outermost call passed to the tracer, in call order
SeedRecursions ==
    LET cs == SelectSeq(calls, IsDepth2) IN [i \in 1..Len(cs) |-> cs[i].v]

IsPrefix(s, t) == Len(s) <= Len(t) /\ SubSeq(t, 1, Len(s)) = s

\* the classes the specification calls terminal origins
TerminalOrigins == Arguments \cup AllocaInsts \cup GlobalVariables \cup StoreInsts

\* the line the report is expected to carry for a value that is reported
ExpectedEntry(V) ==
    IF V \in Arguments THEN Line("function argument", V)
    ELSE IF V \in AllocaInsts THEN Line("alloca", V)
    ELSE IF V \in GlobalVariables THEN Line("global variable", V)
    ELSE IF V \in StoreInsts THEN Line("store", V)
    ELSE Line("instruction", V)

RECURSIVE Concat(_)
Concat(ss) == IF ss = <<>> THEN <<>> ELSE ss[1] \o Concat(Tail(ss))

\* the depth-first pre-order listing of the values reported from V over the
\* operand graph G: V, then the whole listing of each operand in turn.  The
\* fuel stops the listing, with a mark, where the graph has a cycle.
RECURSIVE PreOrderFuel(_, _, _)
PreOrderFuel(G, V, fuel) ==
    IF fuel = 0 THEN <<Line("cut", V)>>
    ELSE IF V \in TerminalOrigins THEN <<ExpectedEntry(V)>>
    ELSE IF V \in Instructions THEN
        <<ExpectedEntry(V)>>
            \o Concat([i \in 1..Len(G[V]) |-> PreOrderFuel(G, G[V][i], fuel - 1)])
    ELSE <<>>

PreOrder(G, V) == PreOrderFuel(G, V, MaxDepth)

(***************************************************************************)
(* C1.  For any def-use graph, also one with a cycle through a phi node,   *)
(* the trace started on a seed eventually returns.                         *)
(***************************************************************************)
C1_TraceReturns == <>(status = "returned")

(***************************************************************************)
(* C2.  Within one trace no node is expanded more than once: a returned    *)
(* trace holds at most one entry for any value.                            *)
(***************************************************************************)
C2_NoNodeExpandedTwice ==
    status = "returned" =>
        \A i, j \in 1..Len(TraceResult(errs)) :
            i # j => TraceResult(errs)[i].v # TraceResult(errs)[j].v

(***************************************************************************)
(* C3.  Tracing a parameter, an alloca, a global or a store records        *)
(* exactly one entry for it and passes none of its operands to the         *)
(* tracer: a call on such a value is never followed by a deeper call, and  *)
(* a trace seeded with one makes no other call, prints no operand and      *)
(* returns with the one entry.                                             *)
(***************************************************************************)
C3_TerminalShortCircuit ==
    /\ \A n \in 1..(Len(calls) - 1) :
          calls[n].v \in TerminalOrigins => calls[n + 1].depth <= calls[n].depth
    /\ Seed \in TerminalOrigins =>
          /\ Len(calls) = 1
          /\ \A n \in 1..Len(errs) : errs[n].tag # "Operand"
          /\ status = "returned" => TraceResult(errs) = <<ExpectedEntry(Seed)>>

C3_Witness ==
    /\ status = "returned"
    /\ Seed = "st"
    /\ Len(operands[Seed]) = 2
    /\ Len(TraceResult(errs)) = 1

\* the callees whose result is external input, and the callee of a call
InputRoutines == {"scanf"}

CalleeOf(G, V) == G[V][Len(G[V])]

(***************************************************************************)
(* C4.  A call reached by the trace is a terminal: none of its operands is *)
(* passed to the tracer, and its entry marks it a tainted external input   *)
(* when its callee is an input routine and an opaque call otherwise.       *)
(***************************************************************************)
C4_CallIsTerminal ==
    /\ \A n \in 1..(Len(calls) - 1) :
          calls[n].v \in CallInsts => calls[n + 1].depth <= calls[n].depth
    /\ \A n \in 1..Len(errs) :
          (IsOriginLine(errs[n]) /\ errs[n].v \in CallInsts) =>
              errs[n].tag = IF CalleeOf(operands, errs[n].v) \in InputRoutines
                            THEN "tainted external input" ELSE "opaque call"

(***************************************************************************)
(* C5.  A trace seeded with a phi of N incoming values recurses into each  *)
(* of the N, in order and without merging equal ones: the calls the        *)
(* outermost call makes are always a prefix of the incoming values, and    *)
(* all of them once it has returned.                                       *)
(***************************************************************************)
C5_PhiFanOut ==
    Seed \in PHINodes =>
        /\ IsPrefix(SeedRecursions, operands[Seed])
        /\ status = "returned" => SeedRecursions = operands[Seed]

C5_Witness ==
    /\ status = "returned"
    /\ Seed \in PHINodes
    /\ Len(operands[Seed]) = MaxIncoming
    /\ \A n \in 1..Len(operands[Seed]) : operands[Seed][n] = "ld"
    /\ Len(SeedRecursions) = MaxIncoming

(***************************************************************************)
(* C6.  Every node reached backward from the seed is given a category:     *)
(* every value passed to the tracer has an entry, a constant one as        *)
(* "constant" and a value of no known class as "unknown".                  *)
(***************************************************************************)
C6_EveryReachedNodeClassified ==
    status = "returned" =>
        \A n \in 1..Len(calls) :
            \E m \in 1..Len(errs) :
                /\ errs[m].v = calls[n].v
                /\ IF calls[n].v \in ConstantInts THEN errs[m].tag = "constant"
                   ELSE IF calls[n].v \in Functions THEN errs[m].tag = "unknown"
                   ELSE IsOriginLine(errs[m])

\* the lines run itself prints
RunTags ==
    {"I see a function", "I see a basic block", "analyzing uses of",
     "branch instruction condition", "branch instruction"}

\* the lines of errs on which run starts a trace
TraceStarts == {n \in 1..Len(errs) : errs[n].tag = "branch instruction condition"}

LaterRunLines(n) == {m \in (n + 1)..Len(errs) : errs[m].tag \in RunTags}

SegmentEnd(n) ==
    IF LaterRunLines(n) = {} THEN Len(errs) + 1
    ELSE CHOOSE m \in LaterRunLines(n) : \A k \in LaterRunLines(n) : m <= k

\* what the trace started on line n printed
Segment(n) == SubSeq(errs, n + 1, SegmentEnd(n) - 1)

\* the trace started on line n has returned
Finished(n) == LaterRunLines(n) # {} \/ (stack = <<>> /\ status # "overflow")

(***************************************************************************)
(* C7.  The result of tracing a seed does not depend on the seeds run      *)
(* traced before it: two finished traces of one seed print the same lines, *)
(* and the entries of any finished trace are those of the seed traced over *)
(* the graph alone.                                                        *)
(***************************************************************************)
C7_SeedIndependence ==
    /\ \A n, m \in TraceStarts :
          (n < m /\ errs[n].v = errs[m].v /\ Finished(n) /\ Finished(m)) =>
              Segment(n) = Segment(m)
    /\ \A n \in TraceStarts :
          Finished(n) => TraceResult(Segment(n)) = PreOrder(operands, errs[n].v)

C7_Witness ==
    /\ status = "done"
    /\ \E n, m \in TraceStarts :
          /\ n < m
          /\ errs[n].v = "cmp"
          /\ errs[m].v = "ld"
          /\ operands["cmp"] = <<"ld", "ld">>
          /\ Len(Segment(m)) > 0

C9_PreOrderWalk ==
    status = "returned" => TraceResult(errs) = PreOrder(operands, Seed)

C9_Witness ==
    /\ status = "returned"
    /\ Seed = "cmp"
    /\ operands["cmp"] = <<"ld", "k">>
    /\ operands["ld"] = <<"a">>
    /\ TraceResult(errs) =
          <<Line("instruction", "cmp"), Line("instruction", "ld"), Line("alloca", "a")>>

\* the places of the instructions of m, in the order of the module
AllPlaces(m) ==
    Concat([f \in 1..Len(m) |->
        Concat([b \in 1..Len(m[f]) |->
            [i \in 1..Len(m[f][b]) |-> [f |-> f, b |-> b, i |-> i]]])])

Before(q, p) ==
    \/ q.f < p.f
    \/ q.f = p.f /\ q.b < p.b
    \/ q.f = p.f /\ q.b = p.b /\ q.i < p.i

IsWalkedConditional(q) ==
    /\ Before(q, pos)
    /\ module[q.f][q.b][q.i].opcode = "br"
    /\ module[q.f][q.b][q.i].conditional

\* the conditions of the conditional branches the walk has passed
ConditionsWalked ==
    LET qs == SelectSeq(AllPlaces(module), IsWalkedConditional)
    IN  [n \in 1..Len(qs) |-> module[qs[n].f][qs[n].b][qs[n].i].cond]

IsDepth1(c) == c.depth = 1

SeedsTraced ==
    LET cs == SelectSeq(calls, IsDepth1) IN [n \in 1..Len(cs) |-> cs[n].v]

(***************************************************************************)
(* C10.  run walks every instruction of every block of every function in   *)
(* order and starts one trace for each conditional branch, on its          *)
(* condition, and none for any other instruction: the seeds of the traces  *)
(* started are the conditions of the conditional branches walked so far,   *)
(* and run is done only when the walk has passed the last instruction.     *)
(***************************************************************************)
C10_OneTracePerConditionalBranch ==
    /\ SeedsTraced = ConditionsWalked
    /\ status = "done" =>
          \A n \in 1..Len(AllPlaces(module)) : Before(AllPlaces(module)[n], pos)

C10_Witness ==
    /\ status = "done"
    /\ Len(module) = 2
    /\ Len(SeedsTraced) = 1
    /\ \E f \in 1..Len(module) : \E b \in 1..Len(module[f]) :
          module[f][b] = <<UncondBr>>

====
